---------------------------- MODULE Spec2Model ----------------------------
(***************************************************************************)
(* Interferogram network design and filtering of PySAR                     *)
(* (src/pysar/utils/network.py, src/pysar/utils/ptime.py).                 *)
(*                                                                         *)
(* The functions of the module are pure: the state of the model is one     *)
(* call frame (the function called, its arguments, the position of the     *)
(* call and what it returned or raised).  Init draws the arguments from    *)
(* bounded sets, one action per function runs the whole function body.     *)
(* locals holds the local variables of a function whose loop is followed   *)
(* step by step, prev the arguments as they were passed.                   *)
(*                                                                         *)
(* Representation.                                                         *)
(*  - A date string is the number its digits spell: a 6-character string   *)
(*    'YYMMDD' is a number below 10^6 ('000105' is 105), an 8-character    *)
(*    string 'YYYYMMDD' a number above 10^7.  Strings of equal length      *)
(*    compare as their numbers do, so sorted() is a sort on the numbers.   *)
(*  - A date12 string 'YYMMDD-YYMMDD' is the tuple <<date1, date2>> that   *)
(*    date12.split('-') yields; date12 strings compare as the tuples do,   *)
(*    lexicographically.                                                   *)
(*  - Python lists are sequences; Python's 0-based index i is i+1 here.    *)
(*  - Distances are compared through their squares, multiplied by the      *)
(*    common positive denominator, so that all arithmetic is on integers.  *)
(***************************************************************************)
EXTENDS Integers, Sequences, FiniteSets, TLC

VARIABLES func, args, pc, ret, ncalls, prev, locals

vars == <<func, args, pc, ret, ncalls, prev, locals>>

(***************************************************************************)
(* Bounds of the model.                                                    *)
(***************************************************************************)
MaxDates == 3

MaxInc == 2

MaxPairs == 3

(***************************************************************************)
(* Python built-ins used by the code.                                      *)
(***************************************************************************)
Range(s) == {s[i] : i \in 1..Len(s)}

IntLess(a, b) == a < b

\* sorted() on a list of equal-length digit strings
sorted(s) == SortSeq(s, IntLess)

\* sorted(list(set(...))) on a set of equal-length digit strings
RECURSIVE SortedOfSet(_)
SortedOfSet(S) ==
    IF S = {} THEN <<>>
    ELSE LET m == CHOOSE x \in S : \A y \in S : x <= y
         IN  <<m>> \o SortedOfSet(S \ {m})

\* list.index(x): the first position holding x, 0 when x is absent (ValueError)
index(s, x) ==
    IF \E i \in 1..Len(s) : s[i] = x
    THEN CHOOSE i \in 1..Len(s) : s[i] = x /\ \A j \in 1..(i-1) : s[j] # x
    ELSE 0

Abs(x) == IF x < 0 THEN -x ELSE x

RECURSIVE SeqMax(_)
SeqMax(s) ==
    IF Len(s) = 1 THEN s[1]
    ELSE LET m == SeqMax(Tail(s)) IN IF s[1] > m THEN s[1] ELSE m

RECURSIVE SeqMin(_)
SeqMin(s) ==
    IF Len(s) = 1 THEN s[1]
    ELSE LET m == SeqMin(Tail(s)) IN IF s[1] < m THEN s[1] ELSE m

(***************************************************************************)
(* ptime.py: date forms and temporal baselines.                            *)
(***************************************************************************)
IsLen6(date) == date < 1000000

yymmdd2yyyymmdd_twenty(date) == 20000000 + date

yymmdd2yyyymmdd(date) ==
    IF date \div 100000 = 9 THEN 19000000 + date ELSE 20000000 + date

\* yyyymmdd() on one string
yyyymmdd1(date) == IF IsLen6(date) THEN yymmdd2yyyymmdd(date) ELSE date

\* yyyymmdd() on a list
yyyymmdd(dates) == [i \in 1..Len(dates) |-> yyyymmdd1(dates[i])]

\* yymmdd() on one string: dates[2:8] drops the two century characters
yymmdd1(date) == IF IsLen6(date) THEN date ELSE date % 1000000

\* yymmdd() on a list
yymmdd(dates) == [i \in 1..Len(dates) |-> yymmdd1(dates[i])]

\* datetime of an 8-digit date as a day number (proleptic Gregorian
\* calendar), what the subtraction of two datetime objects counts in .days
DayNumber(date8) ==
    LET y0  == date8 \div 10000
        m   == (date8 \div 100) % 100
        d   == date8 % 100
        y   == IF m <= 2 THEN y0 - 1 ELSE y0
        era == y \div 400
        yoe == y - era * 400
        mp  == (m + 9) % 12
        doy == (153 * mp + 2) \div 5 + d - 1
        doe == yoe * 365 + yoe \div 4 - yoe \div 100 + doy
    IN  era * 146097 + doe

\* date_list2tbase(dateList)[0]: days with respect to the first date
date_list2tbase(dateList) ==
    LET d8 == yyyymmdd(dateList)
    IN  [i \in 1..Len(d8) |-> DayNumber(d8[i]) - DayNumber(d8[1])]

(***************************************************************************)
(* network.py: network construction strategies.                            *)
(***************************************************************************)
\* itertools.combinations(s, 2), in its lexicographic order of positions
RECURSIVE combinations2(_)
combinations2(s) ==
    IF Len(s) < 2 THEN <<>>
    ELSE [j \in 1..(Len(s) - 1) |-> <<s[1], s[j + 1]>>] \o combinations2(Tail(s))

select_pairs_all_unsorted(date_list) ==
    combinations2(yymmdd(yyyymmdd(date_list)))

select_pairs_all(date_list) ==
    LET date8_list == sorted(yyyymmdd(date_list))
        date6_list == yymmdd(date8_list)
    IN  combinations2(date6_list)

\* the pairs appended for one date_idx: for i in range(increment_num)
RECURSIVE SequentialInner_skipNearest(_, _, _)
SequentialInner_skipNearest(date_idx, i, increment_num) ==
    IF i >= increment_num THEN <<>>
    ELSE (IF date_idx - i - 2 >= 1 THEN << <<date_idx - i - 2, date_idx>> >> ELSE <<>>)
         \o SequentialInner_skipNearest(date_idx, i + 1, increment_num)

RECURSIVE SequentialInner(_, _, _)
SequentialInner(date_idx, i, increment_num) ==
    IF i >= increment_num THEN <<>>
    ELSE (IF date_idx - i - 1 >= 1 THEN << <<date_idx - i - 1, date_idx>> >> ELSE <<>>)
         \o SequentialInner(date_idx, i + 1, increment_num)

\* for date_idx in date_idx_list
RECURSIVE SequentialOuter(_, _, _)
SequentialOuter(date_idx, n, increment_num) ==
    IF date_idx > n THEN <<>>
    ELSE SequentialInner(date_idx, 0, increment_num)
         \o SequentialOuter(date_idx + 1, n, increment_num)

PairLess(p, q) == p[1] < q[1] \/ (p[1] = q[1] /\ p[2] < q[2])

\* sorted(idx) of a two-element list
sorted2(idx) == IF idx[1] <= idx[2] THEN idx ELSE <<idx[2], idx[1]>>

select_pairs_sequential_inclusive(date_list, increment_num) ==
    LET date8_list      == sorted(yyyymmdd(date_list))
        date6_list      == yymmdd(date8_list)
        date12_idx_list == SortSeq(SequentialOuter(1, Len(date6_list), increment_num + 1),
                                   PairLess)
    IN  [k \in 1..Len(date12_idx_list) |->
            <<date6_list[sorted2(date12_idx_list[k])[1]],
              date6_list[sorted2(date12_idx_list[k])[2]]>>]

select_pairs_sequential(date_list, increment_num) ==
    LET date8_list      == sorted(yyyymmdd(date_list))
        date6_list      == yymmdd(date8_list)
        date12_idx_list == SortSeq(SequentialOuter(1, Len(date6_list), increment_num),
                                   PairLess)
    IN  [k \in 1..Len(date12_idx_list) |->
            <<date6_list[sorted2(date12_idx_list[k])[1]],
              date6_list[sorted2(date12_idx_list[k])[2]]>>]

(***************************************************************************)
(* scipy.sparse as the code uses it.  A dense matrix is a function on      *)
(* (1..n) \X (1..n); csr_matrix() stores its nonzero entries in row-major  *)
(* order, and only the stored entries are edges of the graph.              *)
(***************************************************************************)
StoredEntries(mat, n) == {e \in (1..n) \X (1..n) : mat[e] # 0}

\* np.argsort(data) over the stored entries: by weight, entries of equal
\* weight in storage (row-major) order
EdgeBefore(mat, e, f) ==
    \/ mat[e] < mat[f]
    \/ mat[e] = mat[f] /\ PairLess(e, f)

RECURSIVE argsort(_, _)
argsort(mat, E) ==
    IF E = {} THEN <<>>
    ELSE LET e == CHOOSE x \in E : \A y \in E \ {x} : EdgeBefore(mat, x, y)
         IN  <<e>> \o argsort(mat, E \ {e})

\* Kruskal's loop of minimum_spanning_tree(): an entry whose two ends are
\* already joined is dropped, any other is kept and joins their components
RECURSIVE KruskalLoop(_, _, _)
KruskalLoop(edges, comp, kept) ==
    IF edges = <<>> THEN kept
    ELSE LET e  == Head(edges)
             r1 == comp[e[1]]
             r2 == comp[e[2]]
         IN  IF r1 = r2
             THEN KruskalLoop(Tail(edges), comp, kept)
             ELSE KruskalLoop(Tail(edges),
                              [v \in DOMAIN comp |-> IF comp[v] = r2 THEN r1 ELSE comp[v]],
                              kept \cup {e})

\* the set of (row, col) entries of minimum_spanning_tree(csr_matrix(mat))
minimum_spanning_tree(mat, n) ==
    KruskalLoop(argsort(mat, StoredEntries(mat, n)), [v \in 1..n |-> v], {})

\* sparse.find(m)[0:2]: the (row, col) of the entries, ordered by column,
\* then by row
FindBefore(e, f) == e[2] < f[2] \/ (e[2] = f[2] /\ e[1] < f[1])

RECURSIVE find(_)
find(E) ==
    IF E = {} THEN <<>>
    ELSE LET e == CHOOSE x \in E : \A y \in E \ {x} : FindBefore(x, y)
         IN  <<e>> \o find(E \ {e})

(***************************************************************************)
(* network.py: minimum spanning tree in the temporal/perpendicular plane.  *)
(***************************************************************************)
\* np.sqrt(np.square(ttMat) + np.square(ppMat)) with tbase scaled by
\* temp2perp_scale = prange / trange: the entry is the square of the
\* distance times trange^2, which orders and vanishes as the distance does
BaselineDistance2(tbase_list, pbase_list) ==
    LET n      == Len(tbase_list)
        prange == SeqMax(pbase_list) - SeqMin(pbase_list)
        trange == SeqMax(tbase_list) - SeqMin(tbase_list)
    IN  [e \in (1..n) \X (1..n) |->
            (tbase_list[e[1]] - tbase_list[e[2]]) * (tbase_list[e[1]] - tbase_list[e[2]])
                * prange * prange
          + (pbase_list[e[1]] - pbase_list[e[2]]) * (pbase_list[e[1]] - pbase_list[e[2]])
                * trange * trange]

\* the outcome of a call: what it returned, or the exception it raised
Return(value) == [raised |-> "", value |-> value]

Raise(exception) == [raised |-> exception, value |-> <<>>]

\* max()/min() of an empty list raise ValueError, the division by a zero
\* temporal range raises ZeroDivisionError
ScaleError(tbase_list, pbase_list) ==
    IF Len(pbase_list) = 0 \/ Len(tbase_list) = 0 THEN "ValueError"
    ELSE IF SeqMax(tbase_list) - SeqMin(tbase_list) = 0 THEN "ZeroDivisionError"
    ELSE ""

\* the conversion loop ending one entry early
MstDate12List_shortLoop(date6_list, entries) ==
    LET idx_list == find(entries)
    IN  [k \in 1..(Len(idx_list) - 1) |->
            <<date6_list[sorted2(idx_list[k])[1]], date6_list[sorted2(idx_list[k])[2]]>>]

\* Convert MST index matrix into date12 list
MstDate12List(date6_list, entries) ==
    LET idx_list == find(entries)
    IN  [k \in 1..Len(idx_list) |->
            <<date6_list[sorted2(idx_list[k])[1]], date6_list[sorted2(idx_list[k])[2]]>>]

select_pairs_mst(date_list, pbase_list) ==
    LET date6_list == yymmdd(date_list)
        date8_list == yyyymmdd(date_list)
        tbase_list == date_list2tbase(date8_list)
        n          == Len(date_list)
    IN  IF ScaleError(tbase_list, pbase_list) # ""
        THEN Raise(ScaleError(tbase_list, pbase_list))
        ELSE Return(MstDate12List(date6_list,
                        minimum_spanning_tree(BaselineDistance2(tbase_list, pbase_list), n)))

(***************************************************************************)
(* network.py: Doppler overlap.  Doppler coefficients and the azimuth      *)
(* bandwidth are integers (Hz); the overlap is the exact fraction          *)
(* <<numerator, denominator>> with a positive denominator.                 *)
(***************************************************************************)
no_of_rangepix == 5000

\* rangepix - 1 for the sample i of range(10): rangepix = (i-1)*no_of_rangepix/10 + 1
RangeOffset(i) == ((i - 1) * no_of_rangepix) \div 10

DopplerAt(dop, i) ==
    dop[1] + RangeOffset(i) * dop[2] + RangeOffset(i) * RangeOffset(i) * dop[3]

\* ddiff[i] = abs(da - db)
Ddiff_signed(dop_a, dop_b, i) == DopplerAt(dop_a, i) - DopplerAt(dop_b, i)

Ddiff(dop_a, dop_b, i) == Abs(DopplerAt(dop_a, i) - DopplerAt(dop_b, i))

\* sum of ddiff[i] over i in range(10); ddiff_mean is a tenth of it
RECURSIVE DdiffSum(_, _, _)
DdiffSum(dop_a, dop_b, i) ==
    IF i > 9 THEN 0
    ELSE Ddiff(dop_a, dop_b, i) + DdiffSum(dop_a, dop_b, i + 1)

\* (bandwidth_az - ddiff_mean) / bandwidth_az
calculate_doppler_overlap(dop_a, dop_b, bandwidth_az) ==
    <<10 * bandwidth_az - DdiffSum(dop_a, dop_b, 0), 10 * bandwidth_az>>

\* comparison of two fractions with positive denominators
FracGeq(x, y) == x[1] * y[2] >= y[1] * x[2]

FracGreater(x, y) == x[1] * y[2] > y[1] * x[2]

(***************************************************************************)
(* network.py: threshold filters.                                          *)
(***************************************************************************)
\* date12_list_out.append(date12)
ListAppend_front(list, date12) == <<date12>> \o list

ListAppend(list, date12) == Append(list, date12)

\* the dates of a pair list: set(m_dates + s_dates)
PairDates(date12_list) ==
    {date12_list[k][1] : k \in 1..Len(date12_list)}
        \cup {date12_list[k][2] : k \in 1..Len(date12_list)}

\* if dop_overlap >= dop_overlap_min
DopplerKeep_strict(dop_overlap, dop_overlap_min) == FracGreater(dop_overlap, dop_overlap_min)

DopplerKeep(dop_overlap, dop_overlap_min) == FracGeq(dop_overlap, dop_overlap_min)

RECURSIVE DopplerLoop(_, _, _, _, _, _)
DopplerLoop(date12_list, date6_list, dop_list, bandwidth_az, dop_overlap_min, out) ==
    IF date12_list = <<>> THEN Return(out)
    ELSE LET date12 == Head(date12_list)
             idx1   == index(date6_list, date12[1])
             idx2   == index(date6_list, date12[2])
         IN  IF idx1 = 0 \/ idx2 = 0 THEN Raise("ValueError")
             ELSE IF idx1 > Len(dop_list) \/ idx2 > Len(dop_list) THEN Raise("IndexError")
             ELSE DopplerLoop(Tail(date12_list), date6_list, dop_list, bandwidth_az,
                              dop_overlap_min,
                              IF DopplerKeep(calculate_doppler_overlap(dop_list[idx1],
                                                 dop_list[idx2], bandwidth_az),
                                             dop_overlap_min)
                              THEN ListAppend(out, date12) ELSE out)

\* without the guard for an empty pair list
threshold_doppler_overlap_unguarded(date12_list, date_list, dop_list, bandwidth_az, dop_overlap_min) ==
    IF date_list = <<>> THEN Raise("NameError")
    ELSE DopplerLoop(date12_list, yymmdd(date_list), dop_list, bandwidth_az,
                     dop_overlap_min, <<>>)

\* with no date list the code reads pbase_list, a name this function does
\* not have: NameError
threshold_doppler_overlap(date12_list, date_list, dop_list, bandwidth_az, dop_overlap_min) ==
    IF date12_list = <<>> THEN Return(<<>>)
    ELSE IF date_list = <<>> THEN Raise("NameError")
    ELSE DopplerLoop(date12_list, yymmdd(date_list), dop_list, bandwidth_az,
                     dop_overlap_min, <<>>)

\* if pbase_min <= pbase <= pbase_max
PerpKeep_strict(pbase, pbase_min, pbase_max) == pbase_min < pbase /\ pbase < pbase_max

PerpKeep(pbase, pbase_min, pbase_max) == pbase_min <= pbase /\ pbase <= pbase_max

RECURSIVE PerpLoop(_, _, _, _, _, _)
PerpLoop(date12_list, date6_list, pbase_list, pbase_max, pbase_min, out) ==
    IF date12_list = <<>> THEN Return(out)
    ELSE LET date12 == Head(date12_list)
             idx1   == index(date6_list, date12[1])
             idx2   == index(date6_list, date12[2])
         IN  IF idx1 = 0 \/ idx2 = 0 THEN Raise("ValueError")
             ELSE IF idx1 > Len(pbase_list) \/ idx2 > Len(pbase_list) THEN Raise("IndexError")
             ELSE PerpLoop(Tail(date12_list), date6_list, pbase_list, pbase_max, pbase_min,
                           IF PerpKeep(Abs(pbase_list[idx1] - pbase_list[idx2]),
                                       pbase_min, pbase_max)
                           THEN ListAppend(out, date12) ELSE out)

threshold_perp_baseline(date12_list, date_list, pbase_list, pbase_max, pbase_min) ==
    IF date12_list = <<>> THEN Return(<<>>)
    ELSE IF date_list = <<>>
    THEN LET derived == sorted(yyyymmdd(SortedOfSet(PairDates(date12_list))))
         IN  IF Len(derived) # Len(pbase_list) THEN Return(date12_list)
             ELSE PerpLoop(date12_list, yymmdd(derived), pbase_list, pbase_max,
                           pbase_min, <<>>)
    ELSE PerpLoop(date12_list, yymmdd(date_list), pbase_list, pbase_max, pbase_min, <<>>)

\* tbase = int(abs(tbase_list[idx1] - tbase_list[idx2]))
TemporalBaseline_fromFirst(tbase_list, idx1, idx2) == Abs(tbase_list[idx2])

TemporalBaseline(tbase_list, idx1, idx2) == Abs(tbase_list[idx1] - tbase_list[idx2])

\* tbase/30 in [11, 12]: the quotient of a true division is 11 or 12
SeasonalQuotient(tbase) == tbase % 30 = 0 /\ tbase \div 30 \in {11, 12}

\* if btemp_min <= tbase <= btemp_max ... elif keep_seasonal and tbase/30 in [11, 12]
TemporalKeep(tbase, btemp_max, keep_seasonal, btemp_min) ==
    \/ btemp_min <= tbase /\ tbase <= btemp_max
    \/ keep_seasonal /\ SeasonalQuotient(tbase)

RECURSIVE TemporalLoop(_, _, _, _, _, _, _)
TemporalLoop(date12_list, date6_list, tbase_list, btemp_max, keep_seasonal, btemp_min, out) ==
    IF date12_list = <<>> THEN Return(out)
    ELSE LET date12 == Head(date12_list)
             idx1   == index(date6_list, date12[1])
             idx2   == index(date6_list, date12[2])
         IN  IF idx1 = 0 \/ idx2 = 0 THEN Raise("ValueError")
             ELSE TemporalLoop(Tail(date12_list), date6_list, tbase_list, btemp_max,
                               keep_seasonal, btemp_min,
                               IF TemporalKeep(TemporalBaseline(tbase_list, idx1, idx2),
                                               btemp_max, keep_seasonal, btemp_min)
                               THEN ListAppend(out, date12) ELSE out)

threshold_temporal_baseline(date12_list, btemp_max, keep_seasonal, btemp_min) ==
    IF date12_list = <<>> THEN Return(<<>>)
    ELSE LET date8_list == sorted(yyyymmdd(SortedOfSet(PairDates(date12_list))))
             date6_list == yymmdd(date8_list)
             tbase_list == date_list2tbase(date8_list)
         IN  TemporalLoop(date12_list, date6_list, tbase_list, btemp_max, keep_seasonal,
                          btemp_min, <<>>)

(***************************************************************************)
(* network.py: coherence matrix and coherence-based spanning tree.         *)
(* A coherence is an integer count of tenths; not-a-number and infinity    *)
(* are numbers no coherence and no weight takes.                           *)
(***************************************************************************)
nan == -1

inf == 1000

\* 1/coh in units that keep it an integer for every coherence of the model
InvUnit == 2 * 2 * 3 * 5

\* 1/coh_mat[mask]; numpy divides by zero to infinity
Inverse(coh) == IF coh = 0 THEN inf ELSE InvUnit \div coh

\* ptime.yymmdd_date12()
yymmdd_date12(date12_list) ==
    [k \in 1..Len(date12_list) |-> <<yymmdd1(date12_list[k][1]), yymmdd1(date12_list[k][2])>>]

\* coh_mat[idx1, idx2] = coh; coh_mat[idx2, idx1] = coh
SetEntry_oneSided(coh_mat, idx1, idx2, coh) ==
    [coh_mat EXCEPT ![<<idx1, idx2>>] = coh]

SetEntry(coh_mat, idx1, idx2, coh) ==
    [coh_mat EXCEPT ![<<idx1, idx2>>] = coh, ![<<idx2, idx1>>] = coh]

\* for date12 in date12_list, from its position k on
RECURSIVE CoherenceLoop(_, _, _, _, _)
CoherenceLoop(date12_list, k, date_list, coh_list, coh_mat) ==
    IF k > Len(date12_list) THEN Return(coh_mat)
    ELSE LET date12 == date12_list[k]
             idx1   == index(date_list, date12[1])
             idx2   == index(date_list, date12[2])
             at     == index(date12_list, date12)
         IN  IF at > Len(coh_list) THEN Raise("IndexError")
             ELSE CoherenceLoop(date12_list, k + 1, date_list, coh_list,
                                SetEntry(coh_mat, idx1, idx2, coh_list[at]))

\* the date list of the matrix: sorted(ptime.yymmdd(list(set(m_dates + s_dates))))
CoherenceDates(date12_list) == SortedOfSet(PairDates(yymmdd_date12(date12_list)))

coherence_matrix(date12_list, coh_list, diagValue) ==
    LET date12s   == yymmdd_date12(date12_list)
        date_list == CoherenceDates(date12_list)
        date_num  == Len(date_list)
        filled    == CoherenceLoop(date12s, 1, date_list, coh_list,
                                   [e \in (1..date_num) \X (1..date_num) |-> nan])
    IN  IF filled.raised # "" THEN filled
        ELSE IF diagValue # nan
        THEN Return([e \in (1..date_num) \X (1..date_num) |->
                        IF e[1] = e[2] THEN diagValue ELSE filled.value[e]])
        ELSE filled

threshold_coherence_based_mst(date12_list, coh_list) ==
    LET coh_mat    == coherence_matrix(date12_list, coh_list, nan)
        date12s    == yymmdd_date12(date12_list)
        date6_list == yymmdd(sorted(yyyymmdd(SortedOfSet(PairDates(date12s)))))
        date_num   == Len(date6_list)
        wei_mat    == [e \in (1..date_num) \X (1..date_num) |->
                          IF coh_mat.value[e] = nan THEN inf ELSE Inverse(coh_mat.value[e])]
    IN  IF coh_mat.raised # "" THEN coh_mat
        ELSE Return(MstDate12List(date6_list, minimum_spanning_tree(wei_mat, date_num)))

(***************************************************************************)
(* network.py: hierarchical and star networks, master date and master      *)
(* interferogram.                                                          *)
(***************************************************************************)
\* one pass of "for temp_perp in temp_perp_list" with the seasonal pairs kept
HierarchicalStep_seasonal(date12_list_all, date_list, pbase_list, temp_perp) ==
    LET date12_list_tmp == threshold_temporal_baseline(date12_list_all, temp_perp[1], TRUE, 0)
    IN  IF date12_list_tmp.raised # "" THEN date12_list_tmp
        ELSE threshold_perp_baseline(date12_list_tmp.value, date_list, pbase_list,
                                     temp_perp[2], 0)

\* one pass of "for temp_perp in temp_perp_list": the temporal filter with
\* keep_seasonal=False, then the perpendicular filter (btemp_min, pbase_min
\* are the defaults 0.0)
HierarchicalStep(date12_list_all, date_list, pbase_list, temp_perp) ==
    LET date12_list_tmp == threshold_temporal_baseline(date12_list_all, temp_perp[1], FALSE, 0)
    IN  IF date12_list_tmp.raised # "" THEN date12_list_tmp
        ELSE threshold_perp_baseline(date12_list_tmp.value, date_list, pbase_list,
                                     temp_perp[2], 0)

RECURSIVE HierarchicalLoop(_, _, _, _, _)
HierarchicalLoop(date12_list_all, date_list, pbase_list, temp_perp_list, date12_list) ==
    IF temp_perp_list = <<>> THEN Return(date12_list)
    ELSE LET date12_list_tmp == HierarchicalStep(date12_list_all, date_list, pbase_list,
                                                 Head(temp_perp_list))
         IN  IF date12_list_tmp.raised # "" THEN date12_list_tmp
             ELSE HierarchicalLoop(date12_list_all, date_list, pbase_list,
                                   Tail(temp_perp_list),
                                   date12_list \o date12_list_tmp.value)

\* sorted(list(set(...))) on a list of pair strings
RECURSIVE SortedPairsOfSet(_)
SortedPairsOfSet(S) ==
    IF S = {} THEN <<>>
    ELSE LET m == CHOOSE x \in S : \A y \in S : x = y \/ PairLess(x, y)
         IN  <<m>> \o SortedPairsOfSet(S \ {m})

select_pairs_hierarchical(date_list, pbase_list, temp_perp_list) ==
    LET date12_list_all == select_pairs_all(date_list)
        date12_list     == HierarchicalLoop(date12_list_all, date_list, pbase_list,
                                            temp_perp_list, <<>>)
    IN  IF date12_list.raised # "" THEN date12_list
        ELSE Return(SortedPairsOfSet(Range(date12_list.value)))

\* m_date=None; "not m_date" is true of it
None == 0

\* np.argmin taking the last of several minima
argmin_last(s) ==
    CHOOSE i \in 1..Len(s) : s[i] = SeqMin(s) /\ \A j \in (i + 1)..Len(s) : s[j] # SeqMin(s)

\* np.argmin: the first position of the minimum
argmin(s) ==
    CHOOSE i \in 1..Len(s) : s[i] = SeqMin(s) /\ \A j \in 1..(i - 1) : s[j] # SeqMin(s)

\* np.sqrt, to the unit the squared distances are counted in
RECURSIVE SqrtFrom(_, _)
SqrtFrom(x, r) ==
    LET q == (r + x \div r) \div 2
    IN  IF q >= r THEN r ELSE SqrtFrom(x, q)

Sqrt(x) == IF x = 0 THEN 0 ELSE SqrtFrom(x, x)

RECURSIVE SeqSum(_)
SeqSum(s) == IF s = <<>> THEN 0 ELSE Head(s) + SeqSum(Tail(s))

\* np.argmin(disMean) on the means as computed in floating point. Means that
\* are equal in exact arithmetic are sums of differently rounded terms and
\* need not be equal floats, so the minimum may be found at any of them.
\* With up to three dates the means that tie are sums of the same floats (a
\* temporal baseline counts from the first date, and its double is exact),
\* and means of 0 are exact.
ArgminRounded(disMean) ==
    IF Len(disMean) <= 3 \/ SeqMin(disMean) = 0 THEN {argmin(disMean)}
    ELSE {j \in 1..Len(disMean) : disMean[j] = SeqMin(disMean)}

\* the outcomes the call can have. The distances are kept as multiples of
\* 1/(max(tbase)-min(tbase)), the mean over a column as its sum
select_master_date(date_list, pbase_list) ==
    LET date8_list == yyyymmdd(date_list)
        n          == Len(date8_list)
        tbase_list == date_list2tbase(date8_list)
        disMat2    == BaselineDistance2(tbase_list, pbase_list)
        disMean    == [j \in 1..n |-> SeqSum([i \in 1..n |-> Sqrt(disMat2[<<i, j>>])])]
    IN  IF pbase_list = <<>>
        THEN IF n = 0 THEN {Raise("IndexError")}
             ELSE {Return(date8_list[n \div 2 + 1])}
        ELSE IF ScaleError(tbase_list, pbase_list) # ""
        THEN {Raise(ScaleError(tbase_list, pbase_list))}
        ELSE IF Len(pbase_list) # n THEN {Raise("ValueError")}
        ELSE {Return(date8_list[m_idx]) : m_idx \in ArgminRounded(disMean)}

\* the index pairs of the star with the master paired with itself as well
StarIndexes_all(m_idx, n) == [s_idx \in 1..n |-> sorted2(<<m_idx, s_idx>>)]

\* [sorted([m_idx, s_idx]) for s_idx in range(n) if s_idx is not m_idx];
\* "is not" on the small integers of a list position is "!="
StarIndexes(m_idx, n) ==
    LET Other(s_idx) == s_idx # m_idx
        s_idx_list   == SelectSeq([s_idx \in 1..n |-> s_idx], Other)
    IN  [k \in 1..Len(s_idx_list) |-> sorted2(<<m_idx, s_idx_list[k]>>)]

\* the star around the master date that was given or selected
StarOf(date8_list, selected) ==
    LET date6_list == yymmdd(date8_list)
        m_date8    == yyyymmdd1(selected.value)
        m_idx      == index(date8_list, m_date8)
        date12_idx_list == StarIndexes(m_idx, Len(date8_list))
    IN  IF selected.raised # "" THEN selected
        \* m_date8 = None, and date8_list.index(None) raises
        ELSE IF m_idx = 0 THEN Raise("ValueError")
        ELSE Return([k \in 1..Len(date12_idx_list) |->
                        <<date6_list[date12_idx_list[k][1]],
                          date6_list[date12_idx_list[k][2]]>>])

\* the outcomes the call can have: one for each outcome of select_master_date
select_pairs_star(date_list, m_date, pbase_list) ==
    LET date8_list == sorted(yyyymmdd(date_list))
    IN  {StarOf(date8_list, selected) :
            selected \in (IF m_date = None THEN select_master_date(date8_list, pbase_list)
                          ELSE {Return(m_date)})}

\* base_distance, squared and multiplied by (max(tbase)-min(tbase))^2
BaseDistance2(date12_list, date6_list, tbase_array, pbase_array) ==
    LET prange == SeqMax(pbase_array) - SeqMin(pbase_array)
        trange == SeqMax(tbase_array) - SeqMin(tbase_array)
    IN  [k \in 1..Len(date12_list) |->
            LET idx1 == index(date6_list, date12_list[k][1])
                idx2 == index(date6_list, date12_list[k][2])
                dt   == tbase_array[idx2] - tbase_array[idx1]
                dp   == pbase_array[idx2] - pbase_array[idx1]
            IN  dt * dt * prange * prange + dp * dp * trange * trange]

\* the pairs that hold m_date, and all pairs when none does
m_date12_idx_array_orAll(date12_list, m_date) ==
    LET Holds(date12) == date12[1] = m_date
        held          == SelectSeq(date12_list, Holds)
    IN  IF held = <<>> THEN [k \in 1..Len(date12_list) |-> k]
        ELSE [k \in 1..Len(held) |-> index(date12_list, held[k])]

\* [date12_list.index(date12) for date12 in date12_list if m_date+'-' in date12]:
\* the seven characters of m_date+'-' are found in 'YYMMDD-YYMMDD' only as
\* its first date and the dash
m_date12_idx_array(date12_list, m_date) ==
    LET Holds(date12) == date12[1] = m_date
        held          == SelectSeq(date12_list, Holds)
    IN  [k \in 1..Len(held) |-> index(date12_list, held[k])]

\* the date list holds at least two dates and its dates differ, so that the
\* temporal range is positive (numpy would divide by zero without an error)
select_master_interferogram(date12_list, date_list, pbase_list, m_date) ==
    LET date8_list    == yyyymmdd(date_list)
        date6_list    == yymmdd(date8_list)
        tbase_array   == date_list2tbase(date8_list)
        base_distance == BaseDistance2(date12_list, date6_list, tbase_array, pbase_list)
        idx_array     == m_date12_idx_array(date12_list, yymmdd1(m_date))
        min_base_distance == SeqMin([k \in 1..Len(idx_array) |-> base_distance[idx_array[k]]])
    IN  \* max() of an empty array
        IF pbase_list = <<>> \/ date_list = <<>> THEN Raise("ValueError")
        \* date6_list.index() of a date that is not in the date list
        ELSE IF \E k \in 1..Len(date12_list) :
                    \/ index(date6_list, date12_list[k][1]) = 0
                    \/ index(date6_list, date12_list[k][2]) = 0
        THEN Raise("ValueError")
        \* tbase_array[idx2] with an empty index array, which is an array of floats
        ELSE IF date12_list = <<>> THEN Raise("IndexError")
        ELSE IF m_date = None THEN Return(date12_list[argmin(base_distance)])
        \* base_distance[m_date12_idx_array] with an empty index array
        ELSE IF idx_array = <<>> THEN Raise("IndexError")
        ELSE Return(date12_list[index(base_distance, min_base_distance)])

(***************************************************************************)
(* What a date string means, stated apart from the code's conversions.     *)
(***************************************************************************)
\* the calendar date (8 digits) a date string of either form stands for
DateOf(s) ==
    IF s >= 1000000 THEN s
    ELSE IF s >= 900000 THEN 19000000 + s ELSE 20000000 + s

\* the 6-digit form of a date string of either form
Short(s) == s % 1000000

(***************************************************************************)
(* Arguments of the calls.                                                 *)
(***************************************************************************)
\* acquisition dates, as 8-digit strings, of the century window 1990..2089
DateUniverse == {19991201, 20000105, 20000117, 20001130}

PbaseValues == {0, 50, -30}

InjectiveSeqs(S, n) == {s \in [1..n -> S] : \A i, j \in 1..n : i # j => s[i] # s[j]}

\* lists of distinct dates in any order, written in the 8- or the 6-digit form
DateLists ==
    LET L8 == UNION {InjectiveSeqs(DateUniverse, n) : n \in 0..MaxDates}
    IN  L8 \cup {yymmdd(s) : s \in L8}

PbaseLists(n) == [1..n -> PbaseValues]

\* lists of [temporal, perpendicular] thresholds: none, one, a widening and a
\* crossing sequence
TempPerpLists ==
    {<<>>, << <<30, 50>> >>, << <<30, 50>>, <<340, 0>> >>, << <<400, 30>>, <<30, 80>> >>}

\* m_date of the star: none, or a date in the 6- or the 8-digit form
StarChoices == {None, 105, 20000117, 991201}

(***************************************************************************)
(* The calls of the network construction strategies.                       *)
(***************************************************************************)
\* a call ends: it returns a value or raises
Finish(outcome) ==
    /\ ret' = outcome
    /\ pc' = IF outcome.raised = "" THEN "return" ELSE "raise"
    /\ ncalls' = ncalls + 1
    /\ UNCHANGED <<func, args, prev, locals>>

InitNet ==
    /\ pc = "call"
    /\ ret = Return(<<>>)
    /\ ncalls = 0
    /\ prev = <<>>
    /\ locals = <<>>
    /\ \E dl \in DateLists :
          \/ func = "select_pairs_all" /\ args = [date_list |-> dl]
          \/ /\ func = "select_pairs_sequential"
             /\ \E k \in 0..MaxInc : args = [date_list |-> dl, increment_num |-> k]
          \/ /\ func = "select_pairs_mst"
             /\ \E pb \in PbaseLists(Len(dl)) : args = [date_list |-> dl, pbase_list |-> pb]
          \/ /\ func = "select_pairs_hierarchical"
             /\ \E pb \in PbaseLists(Len(dl)), tp \in TempPerpLists :
                   args = [date_list |-> dl, pbase_list |-> pb, temp_perp_list |-> tp]
          \/ /\ func = "select_pairs_star"
             /\ \E m \in StarChoices, pb \in {<<>>} \cup PbaseLists(Len(dl)) :
                   args = [date_list |-> dl, m_date |-> m, pbase_list |-> pb]

Call_select_pairs_all ==
    /\ pc = "call"
    /\ func = "select_pairs_all"
    /\ Finish(Return(select_pairs_all(args.date_list)))

Call_select_pairs_sequential ==
    /\ pc = "call"
    /\ func = "select_pairs_sequential"
    /\ Finish(Return(select_pairs_sequential(args.date_list, args.increment_num)))

Call_select_pairs_mst ==
    /\ pc = "call"
    /\ func = "select_pairs_mst"
    /\ Finish(select_pairs_mst(args.date_list, args.pbase_list))

Call_select_pairs_hierarchical ==
    /\ pc = "call"
    /\ func = "select_pairs_hierarchical"
    /\ Finish(select_pairs_hierarchical(args.date_list, args.pbase_list,
                                        args.temp_perp_list))

Call_select_pairs_star ==
    /\ pc = "call"
    /\ func = "select_pairs_star"
    /\ \E outcome \in select_pairs_star(args.date_list, args.m_date, args.pbase_list) :
          Finish(outcome)

NextNet ==
    \/ Call_select_pairs_all
    \/ Call_select_pairs_sequential
    \/ Call_select_pairs_mst
    \/ Call_select_pairs_hierarchical
    \/ Call_select_pairs_star

SpecNet == InitNet /\ [][NextNet]_vars

(***************************************************************************)
(* Arguments of the threshold filters and of the coherence functions.      *)
(***************************************************************************)
\* pairs of 6-digit dates over a set of dates, the earlier date first
CanonicalPairs(D) ==
    {<<Short(a), Short(b)>> : <<a, b>> \in {q \in D \X D : DayNumber(q[1]) < DayNumber(q[2])}}

PairLists(P) == UNION {[1..n -> P] : n \in 0..MaxPairs}

\* 330, 345 and 360 days after 5 January 2000, and 15 and 30 days apart
TemporalDates == {20000105, 20001130, 20001215, 20001230}

\* (btemp_max, btemp_min)
TemporalBounds == {<<30, 0>>, <<340, 20>>}

FilterDates == {19991201, 20000105, 20000117}

\* the date lists handed to a filter: complete in either form and order,
\* absent, or lacking a date
FilterDateLists ==
    {<<19991201, 20000105, 20000117>>, <<117, 991201, 105>>, <<>>, <<20000105, 20000117>>}

\* (pbase_max, pbase_min)
PerpBounds == {<<50, 0>>, <<80, 30>>}

DopplerPolys == {<<0, 0, 0>>, <<17, 0, 0>>, <<18, 0, 0>>}

AzimuthBandwidths == {20}

\* dop_overlap_min, the default 0.15
OverlapMinima == {<<15, 100>>}

CohValues == {2, 5, 10}

\* pairs of the coherence functions, in the 6-digit form
CohPairs == CanonicalPairs(FilterDates)

\* pairs and coherences of the coherence-based spanning tree: four dates, so
\* that a pair list can leave its dates in two separate groups
MstPairs == CanonicalPairs(DateUniverse)

MstCohValues == {2, 5}

InitFilter ==
    /\ pc = "call"
    /\ ret = Return(<<>>)
    /\ ncalls = 0
    /\ prev = <<>>
    /\ locals = <<>>
    /\ \/ /\ func = "threshold_temporal_baseline"
          /\ \E pl \in PairLists(CanonicalPairs(TemporalDates)), b \in TemporalBounds,
                ks \in BOOLEAN :
                args = [date12_list |-> pl, btemp_max |-> b[1], keep_seasonal |-> ks,
                        btemp_min |-> b[2]]
       \/ /\ func = "threshold_perp_baseline"
          /\ \E pl \in PairLists(CanonicalPairs(FilterDates)), dl \in FilterDateLists,
                n \in {2, 3}, b \in PerpBounds :
                \E pb \in PbaseLists(n) :
                    /\ dl # <<>> => n = Len(dl)
                    /\ args = [date12_list |-> pl, date_list |-> dl, pbase_list |-> pb,
                               pbase_max |-> b[1], pbase_min |-> b[2]]
       \/ /\ func = "threshold_doppler_overlap"
          /\ \E pl \in PairLists(CanonicalPairs(FilterDates)), dl \in FilterDateLists,
                bw \in AzimuthBandwidths, m \in OverlapMinima :
                \E dop \in [1..(IF dl = <<>> THEN 3 ELSE Len(dl)) -> DopplerPolys] :
                    args = [date12_list |-> pl, date_list |-> dl, dop_list |-> dop,
                            bandwidth_az |-> bw, dop_overlap_min |-> m]
       \/ /\ func = "coherence_matrix"
          /\ \E pl \in PairLists(CohPairs), form \in {6, 8}, dv \in {nan, 10} :
                \E cl \in [1..Len(pl) -> CohValues] :
                    args = [date12_list |-> IF form = 6 THEN pl
                                            ELSE [k \in 1..Len(pl) |->
                                                    <<DateOf(pl[k][1]), DateOf(pl[k][2])>>],
                            coh_list |-> cl, diagValue |-> dv]
       \/ /\ func = "threshold_coherence_based_mst"
          /\ \E pl \in PairLists(MstPairs) :
                \E cl \in [1..Len(pl) -> MstCohValues] \cup [1..1 -> MstCohValues] :
                    /\ Len(cl) # Len(pl) => pl = <<>>
                    /\ args = [date12_list |-> pl, coh_list |-> cl]

Call_threshold_temporal_baseline ==
    /\ pc = "call"
    /\ func = "threshold_temporal_baseline"
    /\ Finish(threshold_temporal_baseline(args.date12_list, args.btemp_max,
                                          args.keep_seasonal, args.btemp_min))

Call_threshold_perp_baseline ==
    /\ pc = "call"
    /\ func = "threshold_perp_baseline"
    /\ Finish(threshold_perp_baseline(args.date12_list, args.date_list, args.pbase_list,
                                      args.pbase_max, args.pbase_min))

Call_threshold_doppler_overlap ==
    /\ pc = "call"
    /\ func = "threshold_doppler_overlap"
    /\ Finish(threshold_doppler_overlap(args.date12_list, args.date_list, args.dop_list,
                                        args.bandwidth_az, args.dop_overlap_min))

Call_coherence_matrix ==
    /\ pc = "call"
    /\ func = "coherence_matrix"
    /\ Finish(coherence_matrix(args.date12_list, args.coh_list, args.diagValue))

Call_threshold_coherence_based_mst ==
    /\ pc = "call"
    /\ func = "threshold_coherence_based_mst"
    /\ Finish(threshold_coherence_based_mst(args.date12_list, args.coh_list))

ThresholdFilters ==
    {"threshold_temporal_baseline", "threshold_perp_baseline", "threshold_doppler_overlap"}

\* the caller hands the list a threshold filter returned to the same filter
\* again, all other arguments as they were; prev keeps the first arguments
Reapply ==
    /\ pc = "return"
    /\ ncalls = 1
    /\ func \in ThresholdFilters
    /\ args' = [args EXCEPT !.date12_list = ret.value]
    /\ prev' = args
    /\ pc' = "call"
    /\ UNCHANGED <<func, ret, ncalls, locals>>

NextFilter ==
    \/ Call_threshold_temporal_baseline
    \/ Call_threshold_perp_baseline
    \/ Call_threshold_doppler_overlap
    \/ Call_coherence_matrix
    \/ Call_threshold_coherence_based_mst
    \/ Reapply

SpecFilter == InitFilter /\ [][NextFilter]_vars

(***************************************************************************)
(* Arguments and calls of the master selection.                            *)
(***************************************************************************)
MaxMasterPairs == 2

\* four acquisitions twelve days apart and two baselines: every scaled
\* baseline is a small multiple of 1/2, so the floating-point distances of
\* the code are exact and equal distances compare equal
MasterDates == {20000105, 20000117, 20000129, 20000210}

MasterPbaseValues == {0, 36}

\* baselines for which the scale of the temporal baselines is no exact float
SkewPbaseValues == {0, 64, 128}

\* chronological lists of two or more dates, in the 8- or the 6-digit form
MasterDateLists ==
    LET L8 == {SortedOfSet(D) : D \in {E \in SUBSET MasterDates : Cardinality(E) >= 2}}
    IN  L8 \cup {yymmdd(s) : s \in L8}

\* no preferred date, a date of the universe in either form, a date of no list
MasterChoices == {None, 991201, 20000129} \cup {Short(d) : d \in MasterDates}

\* lists of pairs of the dates of one date list
MasterPairLists(date_list) ==
    UNION {[1..n -> CanonicalPairs(Range(yyyymmdd(date_list)))] : n \in 0..MaxMasterPairs}

InitMaster ==
    /\ pc = "call"
    /\ ret = Return(<<>>)
    /\ ncalls = 0
    /\ prev = <<>>
    /\ locals = <<>>
    /\ \/ /\ func = "select_master_interferogram"
          /\ \E dl \in MasterDateLists :
                \E pb \in [1..Len(dl) -> MasterPbaseValues], m \in MasterChoices :
                    \E pl \in MasterPairLists(dl) :
                        args = [date12_list |-> pl, date_list |-> dl,
                                pbase_list |-> pb, m_date |-> m]
       \/ /\ func = "select_master_date"
          /\ \/ \E dl \in DateLists :
                   \E pb \in {<<>>} \cup PbaseLists(Len(dl)) :
                       args = [date_list |-> dl, pbase_list |-> pb]
             \/ \E dl \in MasterDateLists :
                   \E pb \in [1..Len(dl) -> SkewPbaseValues] :
                       args = [date_list |-> dl, pbase_list |-> pb]

Call_select_master_interferogram ==
    /\ pc = "call"
    /\ func = "select_master_interferogram"
    /\ Finish(select_master_interferogram(args.date12_list, args.date_list,
                                          args.pbase_list, args.m_date))

Call_select_master_date ==
    /\ pc = "call"
    /\ func = "select_master_date"
    /\ \E outcome \in select_master_date(args.date_list, args.pbase_list) :
          Finish(outcome)

NextMaster ==
    \/ Call_select_master_interferogram
    \/ Call_select_master_date

SpecMaster == InitMaster /\ [][NextMaster]_vars

(***************************************************************************)
(* network.py: simulated coherence.                                        *)
(* The baseline file is what read_baseline_file() reads from it: the dates *)
(* in the 8-digit form, the perpendicular baselines and the Doppler        *)
(* polynomials (none when the file has no Doppler columns).  The sensor is *)
(* the three numbers the sensor module yields for its name: the thermal    *)
(* coherence 1/(1+1/SNR), the critical perpendicular baseline and the      *)
(* azimuth bandwidth, all positive.  coh_thermal and coh_resid are in      *)
(* tenths, np.exp() in hundredths; a coherence is an exact fraction        *)
(* <<numerator, denominator>> with a positive denominator.                 *)
(***************************************************************************)
\* np.exp(x) in hundredths, at the whole exponents the calls produce
np_exp(x) ==
    CASE x = -2 -> 14 [] x = -1 -> 37 [] x = 0 -> 100 [] x = 1 -> 272 [] x = 2 -> 739

\* if coh < 0.: coh = 0.
ClampZero(coh) == IF coh[1] < 0 THEN <<0, coh[2]>> ELSE coh

\* coh_geom = (pbase_c - abs(pbase)) / pbase_c, not below 0
coh_geom(pbase, pbase_c) == ClampZero(<<pbase_c - Abs(pbase), pbase_c>>)

\* coh_dc: 1 without Doppler polynomials, else their overlap, not below 0
coh_dc(dop_list, m_idx, s_idx, bandwidth_az) ==
    IF dop_list = <<>> THEN <<1, 1>>
    ELSE ClampZero(calculate_doppler_overlap(dop_list[m_idx], dop_list[s_idx], bandwidth_az))

\* coh_temp = (coh_thermal - coh_resid) * exp(-abs(tbase)/decor_time) + coh_resid,
\* in thousandths
coh_temp(coh_thermal, coh_resid, tbase, decor_time) ==
    (coh_thermal - coh_resid) * np_exp((0 - Abs(tbase)) \div decor_time) + coh_resid * 100

\* the body of the loop over the pairs: what it raises, "" if it runs through
CoherenceError(date12, date_list, dop_list, decor_time) ==
    IF ~(date12[1] \in Range(date_list) /\ date12[2] \in Range(date_list)) THEN "ValueError"
    ELSE IF dop_list # <<>> /\ Len(dop_list) < SeqMax(<<index(date_list, date12[1]), index(date_list, date12[2])>>)
         THEN "IndexError"
    ELSE IF decor_time = 0 THEN "ZeroDivisionError"
    ELSE ""

\* coh = coh_geom * coh_dc * coh_temp of one pair
PairCoherence(date12, date_list, pbase_list, dop_list, sensor, decor_time, coh_resid) ==
    LET tbase_list == date_list2tbase(date_list)
        m_idx == index(date_list, date12[1])
        s_idx == index(date_list, date12[2])
        pbase == pbase_list[s_idx] - pbase_list[m_idx]
        tbase == tbase_list[s_idx] - tbase_list[m_idx]
        geom  == coh_geom(pbase, sensor.pbase_c)
        dc    == coh_dc(dop_list, m_idx, s_idx, sensor.bandwidth_az)
        temp  == coh_temp(sensor.coh_thermal, coh_resid, tbase, decor_time)
    IN  <<geom[1] * dc[1] * temp, geom[2] * dc[2] * 1000>>

\* ptime.yyyymmdd_date12()
yyyymmdd_date12(date12_list) ==
    [k \in 1..Len(date12_list) |-> <<yyyymmdd1(date12_list[k][1]), yyyymmdd1(date12_list[k][2])>>]

simulate_coherence(date12_list, baseline_file, sensor, decor_time, coh_resid) ==
    LET date_list == baseline_file.date_list
        pbase_list == baseline_file.pbase_list
        dop_list == baseline_file.dop_list
        date12s == yyyymmdd_date12(date12_list)
        failing == {i \in 1..Len(date12s) : CoherenceError(date12s[i], date_list, dop_list, decor_time) # ""}
    IN  IF failing # {}
        THEN Raise(CoherenceError(date12s[CHOOSE i \in failing : \A j \in failing : i <= j],
                                  date_list, dop_list, decor_time))
        ELSE Return([i \in 1..Len(date12s) |->
                        PairCoherence(date12s[i], date_list, pbase_list, dop_list, sensor,
                                      decor_time, coh_resid)])

(***************************************************************************)
(* The calls of the coherence simulation and of the Doppler overlap.       *)
(***************************************************************************)
\* acquisitions 200 days apart, so that the exponents are whole numbers
SimulatedDates == <<20000105, 20000723, 20010208>>

\* a pair of the file, a pair with a date the file does not have
CoherencePairs == {<<105, 723>>, <<105, 10208>>, <<723, 10208>>, <<991201, 105>>}

\* perpendicular baselines below and above the critical baseline
CoherencePbaseValues == {0, 80}

\* constant Doppler centroids: equal, overlapping, and further apart than
\* the azimuth bandwidth
CoherenceDopplerPolys == {<<0, 0, 0>>, <<17, 0, 0>>, <<40, 0, 0>>}

Sensors == {[coh_thermal |-> 9, pbase_c |-> 60, bandwidth_az |-> 20]}

DecorTimes == {200, -200, 0}

\* residual coherence in tenths: the default 0.2, none, negative, above 1
CohResids == {2, 0, -5, 12}

\* Doppler polynomials with a slope and a curvature over the swath
OverlapPolys == {<<c0, c1, c2>> : c0 \in {0, 17, -5}, c1 \in {0, 1, -1}, c2 \in {0, 1}}

OverlapBandwidths == {20, 1500}

InitCoherence ==
    /\ pc = "call"
    /\ ret = Return(<<>>)
    /\ ncalls = 0
    /\ prev = <<>>
    /\ \/ /\ func = "simulate_coherence"
          /\ locals = <<>>
          /\ \E pairs \in {<<>>} \cup {<<p>> : p \in CoherencePairs},
                pb \in [1..Len(SimulatedDates) -> CoherencePbaseValues],
                dop \in {<<>>} \cup [1..Len(SimulatedDates) -> CoherenceDopplerPolys] \cup [1..1 -> CoherenceDopplerPolys],
                sensor \in Sensors, decor_time \in DecorTimes, coh_resid \in CohResids :
                args = [date12_list |-> pairs,
                        baseline_file |-> [date_list |-> SimulatedDates, pbase_list |-> pb, dop_list |-> dop],
                        sensor |-> sensor, decor_time |-> decor_time, coh_resid |-> coh_resid]
       \/ /\ func = "calculate_doppler_overlap"
          /\ locals = [rangepix |-> <<>>, ddiff |-> <<>>]
          /\ \E dop_a \in OverlapPolys, dop_b \in OverlapPolys, bandwidth_az \in OverlapBandwidths :
                args = [dop_a |-> dop_a, dop_b |-> dop_b, bandwidth_az |-> bandwidth_az]

Call_simulate_coherence ==
    /\ pc = "call"
    /\ func = "simulate_coherence"
    /\ Finish(simulate_coherence(args.date12_list, args.baseline_file, args.sensor,
                                 args.decor_time, args.coh_resid))

\* one pass of the loop "for i in range(10)": i is the number of passes made
Loop_calculate_doppler_overlap ==
    /\ pc = "call"
    /\ func = "calculate_doppler_overlap"
    /\ Len(locals.ddiff) < 10
    /\ LET i == Len(locals.ddiff)
       IN  locals' = [rangepix |-> Append(locals.rangepix, RangeOffset(i) + 1),
                      ddiff |-> Append(locals.ddiff, Ddiff(args.dop_a, args.dop_b, i))]
    /\ UNCHANGED <<func, args, pc, ret, ncalls, prev>>

\* after the loop: ddiff_mean = np.mean(ddiff) and the overlap
Call_calculate_doppler_overlap ==
    /\ pc = "call"
    /\ func = "calculate_doppler_overlap"
    /\ Len(locals.ddiff) = 10
    /\ Finish(Return(<<10 * args.bandwidth_az - SeqSum(locals.ddiff), 10 * args.bandwidth_az>>))

NextCoherence ==
    \/ Call_simulate_coherence
    \/ Loop_calculate_doppler_overlap
    \/ Call_calculate_doppler_overlap

SpecCoherence == InitCoherence /\ [][NextCoherence]_vars

(***************************************************************************)
(* The calls of the date conversions of ptime.py.  dates is one string     *)
(* (type "str") or a list of strings (type "list").                        *)
(***************************************************************************)
\* yyyymmdd(dates): isinstance(dates, str) / isinstance(dates, list)
yyyymmdd_of(type, dates) == IF type = "str" THEN yyyymmdd1(dates) ELSE yyyymmdd(dates)

\* yymmdd(dates)
yymmdd_of(type, dates) == IF type = "str" THEN yymmdd1(dates) ELSE yymmdd(dates)

\* two-digit years and days of the year of the model
YearDigits == {0, 1, 50, 89, 90, 95, 99}

MonthDays == {101, 229, 615, 1231}

\* all 6-digit strings 'YYMMDD' of the model
Dates6 == {yy * 10000 + md : yy \in YearDigits, md \in MonthDays}

\* 8-digit strings 'YYYYMMDD' of the years 1900..2099, inside and outside the
\* century window 1990..2089
Dates8 == {cc * 1000000 + d : cc \in {19, 20}, d \in Dates6}

\* lists of one or two dates, of one form or of both
ConversionLists ==
    {<<d>> : d \in Dates6 \cup Dates8}
        \cup {<<d, e>> : d \in {101, 991231, 20000101, 19991231, 20900615}, e \in {500229, 20890615}}

InitDate ==
    /\ pc = "call"
    /\ ret = Return(<<>>)
    /\ ncalls = 0
    /\ prev = <<>>
    /\ locals = <<>>
    /\ func \in {"yyyymmdd", "yymmdd"}
    /\ \/ \E d \in Dates6 \cup Dates8 : args = [type |-> "str", dates |-> d]
       \/ \E l \in ConversionLists : args = [type |-> "list", dates |-> l]

Call_yyyymmdd ==
    /\ pc = "call"
    /\ func = "yyyymmdd"
    /\ Finish(Return(yyyymmdd_of(args.type, args.dates)))

Call_yymmdd ==
    /\ pc = "call"
    /\ func = "yymmdd"
    /\ Finish(Return(yymmdd_of(args.type, args.dates)))

\* the caller hands the converted dates to the conversion of the other
\* direction; prev keeps the first arguments
ConvertBack ==
    /\ pc = "return"
    /\ ncalls = 1
    /\ func \in {"yyyymmdd", "yymmdd"}
    /\ func' = IF func = "yyyymmdd" THEN "yymmdd" ELSE "yyyymmdd"
    /\ args' = [args EXCEPT !.dates = ret.value]
    /\ prev' = args
    /\ pc' = "call"
    /\ UNCHANGED <<ret, ncalls, locals>>

NextDate ==
    \/ Call_yyyymmdd
    \/ Call_yymmdd
    \/ ConvertBack

SpecDate == InitDate /\ [][NextDate]_vars

(***************************************************************************)
(* network.py: pair_sort and pair_merge.  A pair is the list [idx1, idx2]  *)
(* of two date indexes; a list of pairs is an object with an identity (id) *)
(* and its items.  args holds the caller's lists as they are now, prev     *)
(* what they were when the call was made.                                  *)
(***************************************************************************)
\* for idx in range(len(pairs)): swap pairs[idx] in place when it is reversed
SwapReversed(items) ==
    [idx \in 1..Len(items) |->
        IF items[idx][1] > items[idx][2] THEN <<items[idx][2], items[idx][1]>> ELSE items[idx]]

\* for pair in pairs2: if not pair in pairs: pairs.append(pair)
RECURSIVE AppendNew(_, _)
AppendNew(items, items2) ==
    IF items2 = <<>> THEN items
    ELSE AppendNew(IF Head(items2) \in Range(items) THEN items ELSE Append(items, Head(items2)),
                   Tail(items2))

\* sorted(pairs): a new list object, the items in ascending order
sorted_pairs(id, items) == [id |-> id, items |-> SortSeq(items, PairLess)]

\* the effect of pair_sort(pairs): the caller's list after the call, and the
\* list returned
pair_sort(pairs, new_id) ==
    LET swapped == SwapReversed(pairs.items)
    IN  [pairs |-> [pairs EXCEPT !.items = swapped],
         result |-> sorted_pairs(new_id, swapped)]

\* the effect of pair_merge(pairs1, pairs2): "pairs = pairs1" names the same
\* object, so the appends land in the caller's pairs1
pair_merge(pairs1, pairs2, new_id) ==
    LET merged == AppendNew(pairs1.items, pairs2.items)
    IN  [pairs1 |-> [pairs1 EXCEPT !.items = merged],
         pairs2 |-> pairs2,
         result |-> sorted_pairs(new_id, merged)]

(***************************************************************************)
(* The calls of pair_sort and pair_merge.                                  *)
(***************************************************************************)
MaxIndexPairs == 2

\* pairs of two different date indexes, in either order
IndexPairs == {p \in (0..2) \X (0..2) : p[1] # p[2]}

IndexPairLists == UNION {[1..n -> IndexPairs] : n \in 0..MaxIndexPairs}

InitPairs ==
    /\ pc = "call"
    /\ ret = Return(<<>>)
    /\ ncalls = 0
    /\ prev = <<>>
    /\ locals = <<>>
    /\ \/ /\ func = "pair_sort"
          /\ \E l \in IndexPairLists : args = [pairs |-> [id |-> 1, items |-> l]]
       \/ /\ func = "pair_merge"
          /\ \E l1 \in IndexPairLists, l2 \in IndexPairLists :
                args = [pairs1 |-> [id |-> 1, items |-> l1], pairs2 |-> [id |-> 2, items |-> l2]]

Call_pair_sort ==
    /\ pc = "call"
    /\ func = "pair_sort"
    /\ LET effect == pair_sort(args.pairs, 2)
       IN  /\ args' = [pairs |-> effect.pairs]
           /\ ret' = Return(effect.result)
    /\ prev' = args
    /\ pc' = "return"
    /\ ncalls' = ncalls + 1
    /\ UNCHANGED <<func, locals>>

Call_pair_merge ==
    /\ pc = "call"
    /\ func = "pair_merge"
    /\ LET effect == pair_merge(args.pairs1, args.pairs2, 3)
       IN  /\ args' = [pairs1 |-> effect.pairs1, pairs2 |-> effect.pairs2]
           /\ ret' = Return(effect.result)
    /\ prev' = args
    /\ pc' = "return"
    /\ ncalls' = ncalls + 1
    /\ UNCHANGED <<func, locals>>

NextPairs ==
    \/ Call_pair_sort
    \/ Call_pair_merge

SpecPairs == InitPairs /\ [][NextPairs]_vars

Init == InitNet \/ InitFilter \/ InitMaster \/ InitCoherence \/ InitDate \/ InitPairs

Next == NextNet \/ NextFilter \/ NextMaster \/ NextCoherence \/ NextDate \/ NextPairs

Spec == Init /\ [][Next]_vars

(***************************************************************************)
(* Vocabulary of the properties.                                           *)
(***************************************************************************)
\* the pair lies in the input date list with its first date the earlier one
EarlierFirst(date_list, pair) ==
    \E a, b \in 1..Len(date_list) :
        /\ Short(date_list[a]) = pair[1]
        /\ Short(date_list[b]) = pair[2]
        /\ DayNumber(DateOf(date_list[a])) < DayNumber(DateOf(date_list[b]))

NoDuplicates(s) == \A i, j \in 1..Len(s) : i # j => s[i] # s[j]

\* position (from 1) of a date in the chronological order of the date list
ChronoPosition(date_list, date6) ==
    1 + Cardinality({a \in 1..Len(date_list) :
                        DayNumber(DateOf(date_list[a])) < DayNumber(DateOf(date6))})

\* the dates that the pairs connect, directly or not, to the dates of S
RECURSIVE Reachable(_, _)
Reachable(S, pairs) ==
    LET T == S \cup {p[2] : p \in {q \in Range(pairs) : q[1] \in S}}
                \cup {p[1] : p \in {q \in Range(pairs) : q[2] \in S}}
    IN  IF T = S THEN S ELSE Reachable(T, pairs)

\* the graph of the pairs connects all dates of the date list
ConnectsAll(date_list, pairs) ==
    LET D == {Short(date_list[i]) : i \in 1..Len(date_list)}
    IN  \A d \in D : Reachable({d}, pairs) = D

Returned(f) == func = f /\ pc = "return"

Ended(f) == func = f /\ pc # "call"

(***************************************************************************)
(* C1: for every list of n >= 2 distinct dates select_pairs_all returns    *)
(* exactly n*(n-1)/2 pairs, pairwise different, each with the              *)
(* chronologically earlier date first.                                     *)
(***************************************************************************)
C1_AllPairs ==
    (Returned("select_pairs_all") /\ Len(args.date_list) >= 2) =>
        LET n == Len(args.date_list)
        IN  /\ 2 * Len(ret.value) = n * (n - 1)
            /\ NoDuplicates(ret.value)
            /\ \A i \in 1..Len(ret.value) : EarlierFirst(args.date_list, ret.value[i])

\* three dates given out of order, across the century boundary
C1_Witness ==
    /\ Returned("select_pairs_all")
    /\ Len(args.date_list) = 3
    /\ Len(ret.value) = 3
    /\ DayNumber(DateOf(args.date_list[1])) > DayNumber(DateOf(args.date_list[2]))
    /\ \E i \in 1..3 : DateOf(args.date_list[i]) < 20000000

(***************************************************************************)
(* C2: for every list of n >= 2 distinct dates and every list of           *)
(* perpendicular baselines, also one whose baselines are all equal,        *)
(* select_pairs_mst returns exactly n-1 pairs, and the graph of the        *)
(* returned pairs connects all n dates.                                    *)
(***************************************************************************)
C2_MstSpanningTree ==
    (Ended("select_pairs_mst") /\ Len(args.date_list) >= 2) =>
        /\ pc = "return"
        /\ Len(ret.value) = Len(args.date_list) - 1
        /\ ConnectsAll(args.date_list, ret.value)

\* what the code does keep: the same, for baselines that are not all equal
C2_MstSpanningTreeUnequalBaselines ==
    (/\ Ended("select_pairs_mst")
     /\ Len(args.date_list) >= 2
     /\ \E i, j \in 1..Len(args.pbase_list) : args.pbase_list[i] # args.pbase_list[j]) =>
        /\ pc = "return"
        /\ Len(ret.value) = Len(args.date_list) - 1
        /\ ConnectsAll(args.date_list, ret.value)

(***************************************************************************)
(* C3: for every date list of size n and every increment k >= 0            *)
(* select_pairs_sequential returns at most k*n pairs, and the two dates of *)
(* every returned pair are at least 1 and at most k positions apart in the *)
(* chronologically sorted date list.                                       *)
(***************************************************************************)
C3_SequentialBounded ==
    Returned("select_pairs_sequential") =>
        LET n == Len(args.date_list)
            k == args.increment_num
        IN  /\ Len(ret.value) <= k * n
            /\ \A i \in 1..Len(ret.value) :
                  LET gap == ChronoPosition(args.date_list, ret.value[i][2])
                             - ChronoPosition(args.date_list, ret.value[i][1])
                  IN  1 <= gap /\ gap <= k

\* three unsorted dates with increment 2: the pair two positions apart is there
C3_Witness ==
    /\ Returned("select_pairs_sequential")
    /\ args.increment_num = 2
    /\ Len(args.date_list) = 3
    /\ args.date_list[1] > args.date_list[3]
    /\ Len(ret.value) = 3
    /\ \E i \in 1..3 :
          ChronoPosition(args.date_list, ret.value[i][2])
          - ChronoPosition(args.date_list, ret.value[i][1]) = 2

\* days between the two dates of a pair
PairDays(pair) == Abs(DayNumber(DateOf(pair[2])) - DayNumber(DateOf(pair[1])))

\* position in a date list, of either form, of a 6-digit date
PositionOf(date_list, date6) ==
    CHOOSE i \in 1..Len(date_list) : Short(date_list[i]) = date6

\* the date list names every date of the pair list
Covers(date_list, date12_list) ==
    \A d \in PairDates(date12_list) : \E i \in 1..Len(date_list) : Short(date_list[i]) = d

RECURSIVE IsSubsequence(_, _)
IsSubsequence(s, t) ==
    IF s = <<>> THEN TRUE
    ELSE IF t = <<>> THEN FALSE
    ELSE IF Head(s) = Head(t) THEN IsSubsequence(Tail(s), Tail(t))
    ELSE IsSubsequence(s, Tail(t))

(***************************************************************************)
(* C4: threshold_temporal_baseline keeps a pair if and only if             *)
(* btemp_min <= |dt| <= btemp_max, or keep_seasonal is set and |dt| lies   *)
(* anywhere in the band of 330 to 390 days; every other pair is removed.   *)
(***************************************************************************)
C4_TemporalSeasonalBand ==
    Ended("threshold_temporal_baseline") =>
        LET Keep(pair) ==
                \/ args.btemp_min <= PairDays(pair) /\ PairDays(pair) <= args.btemp_max
                \/ args.keep_seasonal /\ 330 <= PairDays(pair) /\ PairDays(pair) <= 390
        IN  pc = "return" /\ ret.value = SelectSeq(args.date12_list, Keep)

\* what the code keeps: of the band only the pairs of exactly 330 or 360 days
C4_TemporalSeasonalMultiples ==
    Ended("threshold_temporal_baseline") =>
        LET Keep(pair) ==
                \/ args.btemp_min <= PairDays(pair) /\ PairDays(pair) <= args.btemp_max
                \/ args.keep_seasonal /\ PairDays(pair) \in {330, 360}
        IN  pc = "return" /\ ret.value = SelectSeq(args.date12_list, Keep)

(***************************************************************************)
(* C5: for every non-empty pair list, with a date list and a parallel      *)
(* baseline list that cover all its dates, threshold_perp_baseline returns *)
(* exactly the pairs whose absolute perpendicular-baseline difference d    *)
(* satisfies pbase_min <= d <= pbase_max, both bounds inclusive.           *)
(***************************************************************************)
C5_PerpBaselineExact ==
    (/\ Ended("threshold_perp_baseline")
     /\ args.date12_list # <<>>
     /\ args.date_list # <<>>
     /\ Len(args.pbase_list) = Len(args.date_list)
     /\ Covers(args.date_list, args.date12_list)) =>
        LET Pbase(date6) == args.pbase_list[PositionOf(args.date_list, date6)]
            Keep(pair)   == /\ args.pbase_min <= Abs(Pbase(pair[1]) - Pbase(pair[2]))
                            /\ Abs(Pbase(pair[1]) - Pbase(pair[2])) <= args.pbase_max
        IN  pc = "return" /\ ret.value = SelectSeq(args.date12_list, Keep)

\* an unsorted 6-digit date list; of three pairs one lies on a bound and is
\* kept, one lies outside and is removed
C5_Witness ==
    /\ Returned("threshold_perp_baseline")
    /\ ncalls = 1
    /\ args.date_list = <<117, 991201, 105>>
    /\ Len(args.date12_list) = 3
    /\ Len(ret.value) \in {1, 2}
    /\ \E k \in 1..Len(ret.value) :
          Abs(args.pbase_list[PositionOf(args.date_list, ret.value[k][1])]
              - args.pbase_list[PositionOf(args.date_list, ret.value[k][2])])
            \in {args.pbase_min, args.pbase_max}

C7_FilterSubsequence ==
    (pc = "return" /\ func \in ThresholdFilters) =>
        IsSubsequence(ret.value, args.date12_list)

\* of three different pairs the middle one is removed, the outer two are kept
C7_Witness ==
    /\ Returned("threshold_temporal_baseline")
    /\ ncalls = 1
    /\ Len(args.date12_list) = 3
    /\ NoDuplicates(args.date12_list)
    /\ ret.value = <<args.date12_list[1], args.date12_list[3]>>

(***************************************************************************)
(* C8: applying the same threshold filter with the same parameters and the *)
(* same per-date data a second time, to its own output, returns that       *)
(* output unchanged.                                                       *)
(***************************************************************************)
C8_FilterIdempotent ==
    (func \in ThresholdFilters /\ ncalls = 2) =>
        pc = "return" /\ ret.value = args.date12_list

\* the second application, after a first one that removed a pair and kept two
C8_Witness ==
    /\ Returned("threshold_temporal_baseline")
    /\ ncalls = 2
    /\ Len(prev.date12_list) = 3
    /\ Len(args.date12_list) = 2
    /\ Len(ret.value) = 2

(***************************************************************************)
(* C9: every filter (threshold_temporal_baseline, threshold_perp_baseline, *)
(* threshold_doppler_overlap, threshold_coherence_based_mst) given an      *)
(* empty pair list returns an empty list and raises no error, whatever the *)
(* other arguments are.                                                    *)
(***************************************************************************)
C9_EmptyInEmptyOut ==
    (/\ func \in ThresholdFilters \cup {"threshold_coherence_based_mst"}
     /\ pc # "call"
     /\ args.date12_list = <<>>) =>
        pc = "return" /\ ret.value = <<>>

\* the coherence-based filter, which has no guard of its own, on an empty
\* pair list with a coherence value left over
C9_Witness ==
    /\ Returned("threshold_coherence_based_mst")
    /\ args.date12_list = <<>>
    /\ args.coh_list # <<>>
    /\ ret.value = <<>>

InputConnected(date12_list) ==
    \A d \in PairDates(date12_list) :
        Reachable({d}, date12_list) = PairDates(date12_list)

\* the dates a pair list names, as a list
DatesOfPairs(date12_list) == SortedOfSet(PairDates(date12_list))

\* a non-empty pair list with one (positive) coherence per pair
CoherentInput ==
    /\ args.date12_list # <<>>
    /\ Len(args.coh_list) = Len(args.date12_list)
    /\ \A k \in 1..Len(args.coh_list) : args.coh_list[k] > 0

(***************************************************************************)
(* C11: for every pair list with positive coherences whose pair graph is   *)
(* connected, every pair returned by threshold_coherence_based_mst is a    *)
(* member of the input pair list, also for a date set that holds both      *)
(* 19xx dates and 20xx dates.                                              *)
(***************************************************************************)
C11_MstPairsFromInput ==
    (/\ Ended("threshold_coherence_based_mst")
     /\ CoherentInput
     /\ InputConnected(args.date12_list)) =>
        /\ pc = "return"
        /\ \A k \in 1..Len(ret.value) : ret.value[k] \in Range(args.date12_list)

\* what the code does keep: the same, for dates of one century
C11_MstPairsFromInputOneCentury ==
    (/\ Ended("threshold_coherence_based_mst")
     /\ CoherentInput
     /\ InputConnected(args.date12_list)
     /\ \A d \in PairDates(args.date12_list) : DateOf(d) >= 20000000) =>
        /\ pc = "return"
        /\ \A k \in 1..Len(ret.value) : ret.value[k] \in Range(args.date12_list)

(***************************************************************************)
(* C12: for every pair list with positive coherences whose pair graph over *)
(* its n dates is connected, threshold_coherence_based_mst returns exactly *)
(* n-1 pairs that connect all n dates (a spanning tree).                   *)
(***************************************************************************)
C12_MstSpanningTree ==
    (/\ Ended("threshold_coherence_based_mst")
     /\ CoherentInput
     /\ InputConnected(args.date12_list)) =>
        /\ pc = "return"
        /\ Len(ret.value) = Cardinality(PairDates(args.date12_list)) - 1
        /\ ConnectsAll(DatesOfPairs(args.date12_list), ret.value)

\* a triangle of three pairs with unequal coherences: two pairs are returned
C12_Witness ==
    /\ Returned("threshold_coherence_based_mst")
    /\ Len(args.date12_list) = 3
    /\ Cardinality(PairDates(args.date12_list)) = 3
    /\ NoDuplicates(args.date12_list)
    /\ \E i, j \in 1..3 : args.coh_list[i] # args.coh_list[j]
    /\ Len(ret.value) = 2

(***************************************************************************)
(* C13: when the pair graph of the input list is disconnected,             *)
(* threshold_coherence_based_mst fails with an error; it never returns a   *)
(* pair that corresponds to an infinite-weight (absent) edge.              *)
(***************************************************************************)
C13_MstDisconnectedFails ==
    (/\ Ended("threshold_coherence_based_mst")
     /\ CoherentInput
     /\ ~ InputConnected(args.date12_list)) =>
        pc = "raise"

\* the calendar dates of the date list of the call
ArgDates == {DateOf(args.date_list[a]) : a \in 1..Len(args.date_list)}

\* the perpendicular baseline the baseline list gives for a date
PbaseOf(date) ==
    args.pbase_list[CHOOSE a \in 1..Len(args.date_list) :
                        DateOf(args.date_list[a]) = DateOf(date)]

SetMax(S) == CHOOSE x \in S : \A y \in S : y <= x

SetMin(S) == CHOOSE x \in S : \A y \in S : x <= y

\* the squared distance of the two dates of a pair in the plane of temporal
\* baseline (scaled by prange/trange) and perpendicular baseline, multiplied
\* by trange^2 to stay in the integers
ScaledDistance2(pair) ==
    LET days   == {DayNumber(d) : d \in ArgDates}
        pbases == Range(args.pbase_list)
        trange == SetMax(days) - SetMin(days)
        prange == SetMax(pbases) - SetMin(pbases)
        dt     == DayNumber(DateOf(pair[2])) - DayNumber(DateOf(pair[1]))
        dp     == PbaseOf(pair[2]) - PbaseOf(pair[1])
    IN  dt * dt * prange * prange + dp * dp * trange * trange

\* the pair has the date as its first or as its second date
Contains(pair, date) == DateOf(pair[1]) = DateOf(date) \/ DateOf(pair[2]) = DateOf(date)

C15_MasterPairOfPreferredDate ==
    (/\ Ended("select_master_interferogram")
     /\ args.m_date # None
     /\ \E k \in 1..Len(args.date12_list) : Contains(args.date12_list[k], args.m_date)) =>
        /\ pc = "return"
        /\ ret.value \in Range(args.date12_list)
        /\ Contains(ret.value, args.m_date)
        /\ \A j \in 1..Len(args.date12_list) :
              Contains(args.date12_list[j], args.m_date) =>
                  ScaledDistance2(ret.value) <= ScaledDistance2(args.date12_list[j])

\* what the code does keep: with the preferred date as the first date of a
\* pair, an input pair is returned whose distance is the minimum over the
\* pairs that have the preferred date first
C15_MasterPairDistanceOfFirstDate ==
    (/\ Ended("select_master_interferogram")
     /\ args.m_date # None
     /\ \E k \in 1..Len(args.date12_list) :
            DateOf(args.date12_list[k][1]) = DateOf(args.m_date)) =>
        /\ pc = "return"
        /\ ret.value \in Range(args.date12_list)
        /\ \E k \in 1..Len(args.date12_list) :
              /\ DateOf(args.date12_list[k][1]) = DateOf(args.m_date)
              /\ ScaledDistance2(ret.value) = ScaledDistance2(args.date12_list[k])
              /\ \A j \in 1..Len(args.date12_list) :
                    DateOf(args.date12_list[j][1]) = DateOf(args.m_date) =>
                        ScaledDistance2(args.date12_list[k])
                            <= ScaledDistance2(args.date12_list[j])

(***************************************************************************)
(* C16: when the preferred date is in no pair of the input list,           *)
(* select_master_interferogram ends in an error that reaches the caller,   *)
(* and returns no pair.                                                    *)
(***************************************************************************)
C16_MasterPairAbsentDateFails ==
    (/\ Ended("select_master_interferogram")
     /\ args.m_date # None
     /\ \A k \in 1..Len(args.date12_list) : ~ Contains(args.date12_list[k], args.m_date)) =>
        /\ pc = "raise"
        /\ ret.raised # ""
        /\ ret.value = <<>>

\* a preferred date of the date list that neither of two different pairs contains
C16_Witness ==
    /\ Ended("select_master_interferogram")
    /\ args.m_date # None
    /\ DateOf(args.m_date) \in ArgDates
    /\ Len(args.date12_list) = 2
    /\ args.date12_list[1] # args.date12_list[2]
    /\ \A k \in 1..2 : ~ Contains(args.date12_list[k], args.m_date)
    /\ pc = "raise"

\* the pair of two dates of either form, the earlier date first
Date12(d1, d2) ==
    IF DayNumber(DateOf(d1)) < DayNumber(DateOf(d2)) THEN <<Short(d1), Short(d2)>>
    ELSE <<Short(d2), Short(d1)>>

\* the star around a master date: every other date of the list with it
Star(master) == {Date12(d, master) : d \in ArgDates \ {DateOf(master)}}

C18_StarAbsentMasterContinues ==
    (/\ Ended("select_pairs_star")
     /\ args.m_date # None
     /\ DateOf(args.m_date) \notin ArgDates
     /\ Len(args.date_list) >= 2) =>
        /\ pc = "return"
        /\ \E master \in ArgDates : Range(ret.value) = Star(master)

\* all pairs of the date list, the earlier date first
AllPairs == {Date12(d1, d2) : d1, d2 \in ArgDates} \ {<<Short(d), Short(d)>> : d \in ArgDates}

\* some threshold pair (T, P) admits the pair
Admitted(pair) ==
    \E i \in 1..Len(args.temp_perp_list) :
        /\ PairDays(pair) <= args.temp_perp_list[i][1]
        /\ Abs(PbaseOf(pair[2]) - PbaseOf(pair[1])) <= args.temp_perp_list[i][2]

(***************************************************************************)
(* C19: select_pairs_hierarchical returns exactly the pairs of the         *)
(* all-pairs network for which some threshold pair (T, P) of the list has  *)
(* |dt| <= T and |dBperp| <= P, with no seasonal exception (a pair of      *)
(* 330..390 days beyond T is not kept); the result has no pair twice and   *)
(* is sorted ascending by the pair string.                                 *)
(***************************************************************************)
C19_HierarchicalUnion ==
    Ended("select_pairs_hierarchical") =>
        /\ pc = "return"
        /\ Range(ret.value) = {pair \in AllPairs : Admitted(pair)}
        /\ NoDuplicates(ret.value)
        /\ \A k \in 1..(Len(ret.value) - 1) : PairLess(ret.value[k], ret.value[k + 1])

\* the 330-day pair is within the perpendicular threshold but beyond the
\* temporal one and is left out, while another pair is returned
C19_Witness ==
    /\ Returned("select_pairs_hierarchical")
    /\ args.temp_perp_list = << <<30, 50>> >>
    /\ {20000105, 20001130} \subseteq ArgDates
    /\ Abs(PbaseOf(20001130) - PbaseOf(20000105)) <= 50
    /\ <<105, 1130>> \notin Range(ret.value)
    /\ ret.value # <<>>

(***************************************************************************)
(* C20: without perpendicular baselines select_master_date returns, for a  *)
(* date list in any order, the date whose position in the chronologically  *)
(* sorted list is closest to the middle index (position floor(n/2), or     *)
(* n/2-1 for even n, counted from 0).                                      *)
(***************************************************************************)
C20_MasterDateChronologicalMiddle ==
    (/\ Ended("select_master_date")
     /\ args.pbase_list = <<>>
     /\ args.date_list # <<>>) =>
        /\ pc = "return"
        /\ LET n == Len(args.date_list)
           IN  ChronoPosition(args.date_list, ret.value)
                   \in {n \div 2 + 1} \cup (IF n % 2 = 0 THEN {n \div 2} ELSE {})

\* what the code does keep: the same for a date list in chronological order
C20_MasterDateMiddleOfSortedList ==
    (/\ Ended("select_master_date")
     /\ args.pbase_list = <<>>
     /\ args.date_list # <<>>
     /\ \A a \in 1..(Len(args.date_list) - 1) :
            DateOf(args.date_list[a]) < DateOf(args.date_list[a + 1])) =>
        /\ pc = "return"
        /\ ChronoPosition(args.date_list, ret.value) = Len(args.date_list) \div 2 + 1

\* the mean distance of a date of the list to all dates of the list in the
\* scaled baseline plane, as the sum of the distances times trange
MeanDistance(j) ==
    SeqSum([i \in 1..Len(args.date_list) |->
               Sqrt(ScaledDistance2(<<args.date_list[i], args.date_list[j]>>))])

\* select_master_date is called with baselines that are not all equal
MasterDateWithBaselines ==
    /\ Ended("select_master_date")
    /\ Len(args.date_list) >= 2
    /\ Len(args.pbase_list) = Len(args.date_list)
    /\ \E a, b \in 1..Len(args.pbase_list) : args.pbase_list[a] # args.pbase_list[b]

(***************************************************************************)
(* C21: with perpendicular baselines (n >= 2 dates, baselines not all      *)
(* equal) select_master_date returns the date whose mean Euclidean         *)
(* distance to all dates in the scaled (temporal, perpendicular) plane is  *)
(* minimal, and the first in list order of the dates that tie for the      *)
(* minimum; for dates evenly spaced in time and baseline this is the date  *)
(* nearest the centroid.                                                   *)
(***************************************************************************)
C21_MasterDateMinimalMeanFirst ==
    MasterDateWithBaselines =>
        /\ pc = "return"
        /\ \E j \in 1..Len(args.date_list) :
              /\ ret.value = DateOf(args.date_list[j])
              /\ \A i \in 1..Len(args.date_list) : MeanDistance(j) <= MeanDistance(i)
              /\ \A i \in 1..(j - 1) : MeanDistance(j) < MeanDistance(i)

\* what the code does keep: the returned date has the minimal mean distance
C21_MasterDateMinimalMean ==
    MasterDateWithBaselines =>
        /\ pc = "return"
        /\ \E j \in 1..Len(args.date_list) :
              /\ ret.value = DateOf(args.date_list[j])
              /\ \A i \in 1..Len(args.date_list) : MeanDistance(j) <= MeanDistance(i)

\* and of two dates, which always tie, the first is returned
C21_MasterDateOfTwo ==
    (MasterDateWithBaselines /\ Len(args.date_list) = 2) =>
        pc = "return" /\ ret.value = DateOf(args.date_list[1])

\* and of three dates evenly spaced in time and baseline the middle one
C21_MasterDateOfEvenlySpaced ==
    (/\ MasterDateWithBaselines
     /\ args.date_list \in {<<20000105, 20000117, 20000129>>, <<117, 129, 210>>}
     /\ args.pbase_list = <<0, 64, 128>>) =>
        pc = "return" /\ ret.value = DateOf(args.date_list[2])

\* the number of dates of a filter call: of the date list when one is given,
\* of the dates of the pairs otherwise
NumberOfDates ==
    IF args.date_list # <<>> THEN Len(args.date_list)
    ELSE Cardinality(PairDates(args.date12_list))

(***************************************************************************)
(* C22: when the number of dates (of the date list, or of the pair list    *)
(* when no date list is given) differs from the length of the baseline or  *)
(* Doppler list, threshold_perp_baseline and threshold_doppler_overlap     *)
(* skip the filtering: they return the input pair list unchanged and raise *)
(* no error.                                                               *)
(***************************************************************************)
C22_MismatchSkipsFilter ==
    (\/ Ended("threshold_perp_baseline") /\ NumberOfDates # Len(args.pbase_list)
     \/ Ended("threshold_doppler_overlap") /\ NumberOfDates # Len(args.dop_list)) =>
        /\ pc = "return"
        /\ ret.value = args.date12_list

\* what the code does keep: threshold_perp_baseline without a date list
C22_PerpMismatchSkipsFilter ==
    (/\ Ended("threshold_perp_baseline")
     /\ args.date_list = <<>>
     /\ NumberOfDates # Len(args.pbase_list)) =>
        /\ pc = "return"
        /\ ret.value = args.date12_list

(***************************************************************************)
(* C23: when all dates have the same perpendicular baseline (fewer than    *)
(* two distinct baseline values), select_pairs_mst fails with an error     *)
(* and returns no pair list.                                               *)
(***************************************************************************)
C23_MstEqualBaselinesFail ==
    (/\ Ended("select_pairs_mst")
     /\ args.date_list # <<>>
     /\ \A a, b \in 1..Len(args.pbase_list) : args.pbase_list[a] = args.pbase_list[b]) =>
        pc = "raise"

\* what the code does instead: for two or more dates it returns an empty list
C23_MstEqualBaselinesEmpty ==
    (/\ Ended("select_pairs_mst")
     /\ Len(args.date_list) >= 2
     /\ \A a, b \in 1..Len(args.pbase_list) : args.pbase_list[a] = args.pbase_list[b]) =>
        pc = "return" /\ ret.value = <<>>

(***************************************************************************)
(* C24.  Simulated coherence.                                              *)
(***************************************************************************)
\* C24: for all input values (negative or over-critical baselines, any
\* Doppler coefficients, any residual coherence and decorrelation time)
\* every coherence simulate_coherence returns is greater than or equal to 0
C24_CoherenceNonNegative ==
    Returned("simulate_coherence") =>
        \A i \in 1..Len(ret.value) : ret.value[i][1] >= 0 /\ ret.value[i][2] > 0

\* C24, with a residual coherence that is not negative and a positive
\* decorrelation time: every coherence returned is greater than or equal to 0,
\* whatever the baselines and the Doppler polynomials
C24_CoherenceNonNegativeValidResidual ==
    (Returned("simulate_coherence") /\ args.coh_resid >= 0 /\ args.decor_time > 0) =>
        \A i \in 1..Len(ret.value) : ret.value[i][1] >= 0 /\ ret.value[i][2] > 0

\* an over-critical pair whose Doppler centroids are further apart than the
\* bandwidth got the coherence 0
C24_ClampedWitness ==
    /\ Returned("simulate_coherence")
    /\ args.coh_resid >= 0 /\ args.decor_time > 0
    /\ Len(ret.value) = 1
    /\ ret.value[1][1] = 0
    /\ args.baseline_file.dop_list # <<>>

(***************************************************************************)
(* C25.  Doppler overlap of equal and of swapped polynomials.              *)
(***************************************************************************)
\* C25: calculate_doppler_overlap returns exactly 1 when the two Doppler
\* polynomials are identical; for all polynomials and a positive bandwidth
\* the result is at most 1 and is the same when the two polynomials are
\* swapped
C25_DopplerOverlapSymmetric ==
    (Returned("calculate_doppler_overlap") /\ args.bandwidth_az > 0) =>
        /\ args.dop_a = args.dop_b => ret.value[1] = ret.value[2]
        /\ ret.value[2] > 0
        /\ ret.value[1] <= ret.value[2]
        /\ ret.value = calculate_doppler_overlap(args.dop_b, args.dop_a, args.bandwidth_az)

\* two polynomials that differ in slope and curvature, whose signed differences
\* over the samples have a negative sum, got an overlap below 1
C25_Witness ==
    /\ Returned("calculate_doppler_overlap")
    /\ args.dop_a[2] # args.dop_b[2]
    /\ args.dop_a[3] # args.dop_b[3]
    /\ SeqSum([k \in 1..10 |-> Ddiff_signed(args.dop_a, args.dop_b, k - 1)]) < 0
    /\ ret.value[1] < ret.value[2]

(***************************************************************************)
(* C30.  The range offsets at which the Doppler polynomials are sampled.   *)
(***************************************************************************)
\* the offsets rangepix - 1 at which the polynomials were evaluated
Offsets == [k \in 1..Len(locals.rangepix) |-> locals.rangepix[k] - 1]

EvenlySpaced(s) == \A k \in 2..Len(s) : s[k] - s[k - 1] = s[2] - s[1]

\* the overlap fraction is (bandwidth_az - mean of ddiff) / bandwidth_az
MeanEntersOverlap ==
    /\ Len(locals.ddiff) = 10
    /\ \A k \in 1..10 :
          locals.ddiff[k] = Abs(  (args.dop_a[1] + Offsets[k] * args.dop_a[2] + Offsets[k] * Offsets[k] * args.dop_a[3])
                                - (args.dop_b[1] + Offsets[k] * args.dop_b[2] + Offsets[k] * Offsets[k] * args.dop_b[3]))
    /\ ret.value = <<10 * args.bandwidth_az - SeqSum(locals.ddiff), 10 * args.bandwidth_az>>
    /\ ret.value = calculate_doppler_overlap(args.dop_a, args.dop_b, args.bandwidth_az)

\* C30: calculate_doppler_overlap evaluates the two polynomials at exactly
\* 10 evenly spaced range offsets that all lie inside the 5000-pixel swath
\* (0 <= offset < 5000), and the mean of the 10 absolute differences enters
\* the overlap fraction
C30_SamplesInsideSwath ==
    Returned("calculate_doppler_overlap") =>
        /\ Len(Offsets) = 10
        /\ EvenlySpaced(Offsets)
        /\ \A k \in 1..Len(Offsets) : 0 <= Offsets[k] /\ Offsets[k] < no_of_rangepix
        /\ MeanEntersOverlap

\* C30, as the code samples: 10 offsets, 500 pixels apart, from -500 to 4000,
\* the first one before the swath; the mean of the 10 absolute differences
\* enters the overlap fraction
C30_SamplesFromBeforeSwath ==
    Returned("calculate_doppler_overlap") =>
        /\ Len(Offsets) = 10
        /\ EvenlySpaced(Offsets)
        /\ \A k \in 1..Len(Offsets) : Offsets[k] = (k - 2) * (no_of_rangepix \div 10)
        /\ MeanEntersOverlap

(***************************************************************************)
(* C26.  Round trips of the two date forms.                                *)
(***************************************************************************)
\* the strings of an argument or a result: the string itself or the list's
ItemsOf(type, dates) == IF type = "str" THEN <<dates>> ELSE dates

\* the year of an 8-digit date string
YearOf(date8) == date8 \div 10000

InWindow(date8) == YearOf(date8) >= 1990 /\ YearOf(date8) <= 2089

\* C26: yymmdd(yyyymmdd(d)) = d for every 6-digit date d; yyyymmdd() maps a
\* 6-digit date that starts with '9' to the year 19xx and every other one to
\* 20xx; yyyymmdd(yymmdd(D)) = D for every 8-digit date D whose year is in
\* 1990..1999 or 2000..2089
C26_DateRoundTrip ==
    /\ (func = "yyyymmdd" /\ pc = "return" /\ ncalls = 1) =>
          LET in == ItemsOf(args.type, args.dates)
              out == ItemsOf(args.type, ret.value)
          IN  /\ Len(out) = Len(in)
              /\ \A k \in 1..Len(in) :
                    IsLen6(in[k]) =>
                        /\ out[k] % 1000000 = in[k]
                        /\ out[k] \div 1000000 = (IF in[k] \div 100000 = 9 THEN 19 ELSE 20)
    /\ (func = "yymmdd" /\ pc = "return" /\ ncalls = 2) =>
          LET in == ItemsOf(prev.type, prev.dates)
              out == ItemsOf(args.type, ret.value)
          IN  /\ Len(out) = Len(in)
              /\ \A k \in 1..Len(in) : IsLen6(in[k]) => out[k] = in[k]
    /\ (func = "yyyymmdd" /\ pc = "return" /\ ncalls = 2) =>
          LET in == ItemsOf(prev.type, prev.dates)
              out == ItemsOf(args.type, ret.value)
          IN  /\ Len(out) = Len(in)
              /\ \A k \in 1..Len(in) : (~IsLen6(in[k]) /\ InWindow(in[k])) => out[k] = in[k]

\* a list of a date of 1999 and a date of 2089, both in the 8-digit form, came
\* back from yymmdd() and then yyyymmdd()
C26_Witness ==
    /\ func = "yyyymmdd" /\ pc = "return" /\ ncalls = 2
    /\ prev.type = "list"
    /\ prev.dates = <<19991231, 20890615>>
    /\ args.dates = <<991231, 890615>>
    /\ ret.value = prev.dates

(***************************************************************************)
(* C27.  The sequential network is connected and of bounded degree.        *)
(***************************************************************************)
\* the number of pairs of the list the date is part of
Degree(date12_list, date6) ==
    Cardinality({i \in 1..Len(date12_list) : date6 \in {date12_list[i][1], date12_list[i][2]}})

\* the pairs of chronologically adjacent dates, in the 6-digit form
AdjacentPairs(date_list) ==
    LET date8_list == SortedOfSet({DateOf(date_list[i]) : i \in 1..Len(date_list)})
    IN  {<<Short(date8_list[i]), Short(date8_list[i + 1])>> : i \in 1..(Len(date8_list) - 1)}

\* C27: for n >= 2 distinct dates and an increment k >= 1 the network of
\* select_pairs_sequential is connected (it contains every pair of
\* chronologically adjacent dates) and every date is part of at most 2k pairs
C27_SequentialConnected ==
    (Returned("select_pairs_sequential") /\ Len(args.date_list) >= 2 /\ args.increment_num >= 1) =>
        /\ AdjacentPairs(args.date_list) \subseteq Range(ret.value)
        /\ ConnectsAll(args.date_list, ret.value)
        /\ \A i \in 1..Len(args.date_list) :
              Degree(ret.value, Short(args.date_list[i])) <= 2 * args.increment_num

\* three dates of two centuries, not in chronological order, with increment
\* 1: the two adjacent pairs are the network and the middle date is in 2k
\* pairs
C27_Witness ==
    /\ Returned("select_pairs_sequential")
    /\ args.increment_num = 1
    /\ Len(args.date_list) = 3
    /\ DateOf(args.date_list[1]) > DateOf(args.date_list[2])
    /\ \E i \in 1..3 : DateOf(args.date_list[i]) < 20000000
    /\ Len(ret.value) = 2
    /\ \E i \in 1..3 : Degree(ret.value, Short(args.date_list[i])) = 2

(***************************************************************************)
(* C28.  Every strategy returns well-formed pairs for every input order.   *)
(***************************************************************************)
\* every pair has its earlier date first and two different dates, and no pair
\* is there twice
WellFormedPairs(date_list, date12_list) ==
    /\ \A i \in 1..Len(date12_list) :
          /\ EarlierFirst(date_list, date12_list[i])
          /\ date12_list[i][1] # date12_list[i][2]
    /\ NoDuplicates(date12_list)

ChronologicalOrder(date_list) ==
    \A i \in 1..(Len(date_list) - 1) : DateOf(date_list[i]) < DateOf(date_list[i + 1])

\* C28: for every ordering of the input date list (the baseline list in the
\* same order) every pair returned by select_pairs_all, _sequential,
\* _hierarchical, _star and _mst has the earlier date first and two different
\* dates, and no pair is returned twice
C28_WellFormedPairsAnyOrder ==
    \A f \in {"select_pairs_all", "select_pairs_sequential", "select_pairs_hierarchical",
              "select_pairs_star", "select_pairs_mst"} :
        Returned(f) => WellFormedPairs(args.date_list, ret.value)

\* C28, for the four strategies that sort the date list, and for
\* select_pairs_mst when the date list is given in chronological order
C28_WellFormedPairsSortedDates ==
    /\ \A f \in {"select_pairs_all", "select_pairs_sequential", "select_pairs_hierarchical",
                 "select_pairs_star"} :
          Returned(f) => WellFormedPairs(args.date_list, ret.value)
    /\ (Returned("select_pairs_mst") /\ ChronologicalOrder(args.date_list)) =>
          WellFormedPairs(args.date_list, ret.value)

(***************************************************************************)
(* C29.  pair_sort and pair_merge and the lists they are given.            *)
(***************************************************************************)
\* the list returned is an object none of the arguments is
FreshResult(passed) == \A l \in passed : ret.value.id # l.id

\* C29: pair_merge(pairs1, pairs2) and pair_sort(pairs) leave the lists
\* passed to them unchanged; the result is a freshly allocated list
C29_PairListsUnchanged ==
    /\ Returned("pair_sort") =>
          /\ args.pairs = prev.pairs
          /\ FreshResult({args.pairs})
    /\ Returned("pair_merge") =>
          /\ args.pairs1 = prev.pairs1
          /\ args.pairs2 = prev.pairs2
          /\ FreshResult({args.pairs1, args.pairs2})

\* C29, as the code behaves: the result is a new list in ascending order and
\* pairs2 is left as it was, but pair_sort swaps the reversed pairs of the
\* caller's list in place and pair_merge appends to the caller's pairs1 the
\* pairs of pairs2 it does not have
C29_PairListsUpdatedInPlace ==
    /\ Returned("pair_sort") =>
          /\ args.pairs.items = SwapReversed(prev.pairs.items)
          /\ FreshResult({args.pairs})
          /\ ret.value.items = SortSeq(args.pairs.items, PairLess)
    /\ Returned("pair_merge") =>
          /\ Range(args.pairs1.items) = Range(prev.pairs1.items) \cup Range(prev.pairs2.items)
          /\ \A k \in 1..Len(prev.pairs1.items) : args.pairs1.items[k] = prev.pairs1.items[k]
          /\ args.pairs2 = prev.pairs2
          /\ FreshResult({args.pairs1, args.pairs2})
          /\ ret.value.items = SortSeq(args.pairs1.items, PairLess)

=============================================================================
